---- MODULE Spec2Model ----
(***************************************************************************)
(* Matching and match-status handling of the disaster relief backend:      *)
(* the ranking functions of utils/matchingAlgorithm, the controllers that  *)
(* persist rankings and move a match through accept / reject / deliver,    *)
(* and EmergencyService.updateResourceMatch.                               *)
(*                                                                         *)
(* The store holds two mirrored views of a match: the entry for a resource *)
(* in Emergency.matchedResources and the entry for an emergency in         *)
(* Resource.matchedEmergencies.                                            *)
(*                                                                         *)
(* Spec     : every request handler runs to its response in one step.      *)
(* SpecConc : accept / reject / deliver are split at their awaits and two  *)
(*            requests interleave.                                         *)
(***************************************************************************)
EXTENDS Integers, Sequences, FiniteSets, TLC

(***************************************************************************)
(* Bounds of the model.                                                    *)
(***************************************************************************)
\* longest Resource.matchedEmergencies list an accept may still push onto
MaxRefs == 2

(***************************************************************************)
(* The documents of the store.  Their immutable fields are fixed here; the *)
(* fields the handlers write are the variables below.                      *)
(***************************************************************************)
Emergencies == {"e1", "e2"}
Resources == {"r1"}
\* order in which Model.find returns the documents
EmergencyOrder == <<"e1", "e2">>
ResourceOrder == <<"r1">>

NoUser == "nobody"
Users == {"eowner", "rowner", "volunteer", "admin"}

Role(u) == IF u = "admin" THEN "admin" ELSE IF u = "volunteer" THEN "volunteer" ELSE "user"

\* Emergency documents.  location is <<longitude, latitude>> in hundredths of a
\* degree; quantity is the emergency.quantity the ranking functions read.
EmergencyDoc(e) ==
    IF e = "e1"
    THEN [_id |-> e, type |-> "medical", status |-> "active", urgency |-> "high",
          quantity |-> 10, location |-> <<0, 0>>, user |-> "eowner",
          assignedTo |-> "volunteer"]
    ELSE [_id |-> e, type |-> "medical", status |-> "active", urgency |-> "critical",
          quantity |-> 15, location |-> <<0, 27>>, user |-> "eowner",
          assignedTo |-> NoUser]

\* Resource documents without their status, which the handlers write
ResourceDoc(r) ==
    [_id |-> r, type |-> "medical", quantity |-> 10, location |-> <<0, 9>>,
     user |-> "rowner", assignedTo |-> NoUser]

\* Emergency.resourcesNeeded as created: type and fulfilled of each entry
InitialNeeds(e) ==
    IF e = "e1"
    THEN << [type |-> "water", fulfilled |-> FALSE],
            [type |-> "medical", fulfilled |-> FALSE],
            [type |-> "medical", fulfilled |-> FALSE] >>
    ELSE << [type |-> "water", fulfilled |-> FALSE] >>

MatchStatuses == {"pending", "accepted", "rejected", "delivered"}

\* enum of Resource.status
ResourceStatuses == {"available", "reserved", "in-transit", "delivered", "cancelled", "allocated"}

\* enum of Notification.type
NotificationTypes == {"emergency_created", "emergency_updated", "emergency_resolved",
                      "resource_matched", "match_accepted", "match_rejected",
                      "assignment", "system"}

(***************************************************************************)
(* utils/geocoder calculateDistance.  Coordinates are hundredths of a      *)
(* degree and a distance is in hundredths of a kilometre, the precision of *)
(* parseFloat(d.toFixed(2)).  The haversine distance is modelled for two   *)
(* points of one meridian, and for two points of the equator, where it is  *)
(* R * pi / 180 = 111.1949 km per degree.                                  *)
(***************************************************************************)
Abs(x) == IF x < 0 THEN -x ELSE x
Max(a, b) == IF a >= b THEN a ELSE b
Min(a, b) == IF a <= b THEN a ELSE b

\* Math.round of the rational n / d (d > 0): the nearest integer, halves up
Round(n, d) == (2 * n + d) \div (2 * d)

calculateDistance(lat1, lon1, lat2, lon2) ==
    CASE lon1 = lon2 -> Round(1111949 * Abs(lat2 - lat1), 10000)
      [] lon1 # lon2 /\ lat1 = 0 /\ lat2 = 0 -> Round(1111949 * Abs(lon2 - lon1), 10000)

(***************************************************************************)
(* utils/matchingAlgorithm.  maxDistance is in kilometres.                 *)
(***************************************************************************)
DefaultMaxDistance == 50

\* a score that grows with the distance: 100 * distance / maxDistance, clamped
DistanceScoreRising(distance, maxDistance) ==
    Max(0, Min(100 * maxDistance, distance))

\* maxDistance * clamp(100 * (1 - distance / maxDistance), 0, 100)
DistanceScoreScaled(distance, maxDistance) ==
    Max(0, Min(100 * maxDistance, 100 * maxDistance - distance))

\* den * clamp(100 * num / den, 0, 100), den > 0
QuantityScoreScaled(num, den) == Max(0, Min(100 * den, 100 * num))

\* a quantity the document does not have: the property reads undefined
Undefined == -1000000

\* the number NaN, which Math.max, Math.min and Math.round hand on
NaN == -1

\* num / den is NaN: an operand is undefined, or the division is 0 / 0
RatioIsNaN(num, den) == num = Undefined \/ den = Undefined \/ (num = 0 /\ den = 0)

\* num / den as a fraction with a positive denominator.  A division by 0 gives
\* Infinity or -Infinity, which the clamp takes to 100 or to 0 as it takes any
\* ratio above 1 or below 0
RatioNum(num, den) == IF den < 0 THEN -num ELSE num
RatioDen(num, den) == IF den = 0 THEN 1 ELSE Abs(den)

getUrgencyScore(urgency) ==
    CASE urgency = "critical" -> 100
      [] urgency = "high" -> 75
      [] urgency = "medium" -> 50
      [] urgency = "low" -> 25
      [] OTHER -> 0

\* Math.round(distanceScore * 0.6 + quantityScore * 0.4)
ResourceMatchScore(distance, rq, eq, maxDistance) ==
    IF RatioIsNaN(rq, eq) THEN NaN
    ELSE LET num == RatioNum(rq, eq)
             den == RatioDen(rq, eq)
         IN  Round(6 * DistanceScoreScaled(distance, maxDistance) * den
                     + 4 * QuantityScoreScaled(num, den) * maxDistance,
                   10 * maxDistance * den)

\* Math.round(distanceScore * 0.4 + urgencyScore * 0.4 + quantityScore * 0.2)
EmergencyMatchScore(distance, urgency, eq, rq, maxDistance) ==
    IF RatioIsNaN(eq, rq) THEN NaN
    ELSE LET num == RatioNum(eq, rq)
             den == RatioDen(eq, rq)
         IN  Round(4 * DistanceScoreScaled(distance, maxDistance) * den
                     + 4 * getUrgencyScore(urgency) * maxDistance * den
                     + 2 * QuantityScoreScaled(num, den) * maxDistance,
                   10 * maxDistance * den)

\* (a, b) => b.matchScore - a.matchScore is negative, which puts a before b.  A
\* difference with NaN is NaN, which sort takes for 0
ComesFirst(a, b) ==
    a.matchScore # NaN /\ b.matchScore # NaN /\ b.matchScore - a.matchScore < 0

\* Array.prototype.sort((a, b) => b.matchScore - a.matchScore): stable, descending
RECURSIVE InsertByScore(_, _)
InsertByScore(m, sorted) ==
    IF sorted = << >> THEN << m >>
    ELSE IF ~ComesFirst(m, Head(sorted))
         THEN << Head(sorted) >> \o InsertByScore(m, Tail(sorted))
         ELSE << m >> \o sorted

RECURSIVE SortByScore(_)
SortByScore(ms) ==
    IF ms = << >> THEN << >>
    ELSE InsertByScore(ms[Len(ms)], SortByScore(SubSeq(ms, 1, Len(ms) - 1)))

\* what the map callbacks return for a candidate beyond maxDistance
Null == "null"

\* the location of a document that has none: reading location.coordinates of
\* it throws a TypeError
NoLocation == << >>

\* Math.min(a, b), NaN when an argument is undefined
MathMin(a, b) == IF a = Undefined \/ b = Undefined THEN NaN ELSE Min(a, b)

\* the map callback of matchResourcesToEmergency
ResourceCandidate(emergency, resource, maxDistance) ==
    IF resource._id = "resource1"
    THEN [id |-> resource._id, distance |-> 0, matchScore |-> 80]
    ELSE IF resource._id = "resource2"
    THEN [id |-> resource._id, distance |-> 1000, matchScore |-> 60]
    ELSE LET distance == calculateDistance(emergency.location[2], emergency.location[1],
                                           resource.location[2], resource.location[1])
         IN  IF distance > 100 * maxDistance
             THEN [id |-> Null, distance |-> distance, matchScore |-> 0]
             ELSE [id |-> resource._id, distance |-> distance,
                   matchScore |-> ResourceMatchScore(distance, resource.quantity,
                                                     emergency.quantity, maxDistance)]

\* the map callback throws: it reads the coordinates of the emergency and of a
\* resource, other than resource1 and resource2, and one of them has no
\* location.  The catch of the function then returns []
ResourceMapThrows(emergency, matchingResources) ==
    \E i \in 1..Len(matchingResources) :
        /\ matchingResources[i]._id \notin {"resource1", "resource2"}
        /\ (emergency.location = NoLocation \/ matchingResources[i].location = NoLocation)

\* matchResourcesToEmergency(emergency, resources, maxDistance): the ranked list
\* of [id, distance, matchScore], id the matched resource
matchResourcesToEmergency(emergency, resources, maxDistance) ==
    IF emergency.location = <<10000, 10000>> THEN << >>
    ELSE LET matchingResources ==
                 SelectSeq(resources, LAMBDA resource :
                     resource.type = emergency.type /\ resource.status = "available")
             mapped == [i \in 1..Len(matchingResources) |->
                           ResourceCandidate(emergency, matchingResources[i], maxDistance)]
             matches == SelectSeq(mapped, LAMBDA match : match.id # Null)
         IN  IF ResourceMapThrows(emergency, matchingResources)
             THEN << >>
             ELSE SortByScore(matches)

\* the map callback of matchEmergenciesToResource
EmergencyCandidate(resource, emergency, maxDistance) ==
    LET distance == calculateDistance(emergency.location[2], emergency.location[1],
                                      resource.location[2], resource.location[1])
    IN  IF distance > 100 * maxDistance
        THEN [id |-> Null, distance |-> distance, matchScore |-> 0,
              quantity |-> emergency.quantity]
        ELSE [id |-> emergency._id, distance |-> distance,
              quantity |-> emergency.quantity,
              matchScore |-> EmergencyMatchScore(distance, emergency.urgency,
                                                 emergency.quantity, resource.quantity,
                                                 maxDistance)]

\* the map callback throws: the emergency or the resource has no location
EmergencyMapThrows(resource, matchingEmergencies) ==
    \E i \in 1..Len(matchingEmergencies) :
        matchingEmergencies[i].location = NoLocation \/ resource.location = NoLocation

\* matchEmergenciesToResource(resource, emergencies, maxDistance): the ranked list
\* of [id, distance, matchScore, quantity], id the matched emergency and
\* quantity the quantity of the emergency object the entry holds
matchEmergenciesToResource(resource, emergencies, maxDistance) ==
    IF resource._id = "undefined" /\ Len(emergencies) > 0 /\ emergencies[1]._id = "emergency1"
    THEN << [id |-> emergencies[1]._id, distance |-> 0, matchScore |-> 80,
             quantity |-> MathMin(emergencies[1].quantity, resource.quantity)] >>
    ELSE LET matchingEmergencies ==
                 SelectSeq(emergencies, LAMBDA emergency :
                     /\ emergency.type = resource.type
                     /\ emergency.status = "active"
                     /\ emergency.quantity # Undefined /\ resource.quantity # Undefined
                     /\ emergency.quantity <= resource.quantity)
             mapped == [i \in 1..Len(matchingEmergencies) |->
                           EmergencyCandidate(resource, matchingEmergencies[i], maxDistance)]
             matches == SelectSeq(mapped, LAMBDA match : match.id # Null)
         IN  IF EmergencyMapThrows(resource, matchingEmergencies)
             THEN << >>
             ELSE SortByScore(matches)

(***************************************************************************)
(* The store, the notification log, the last response and the requests in  *)
(* flight.                                                                 *)
(***************************************************************************)
VARIABLES
    eExists,             \* eExists[e]: the Emergency document e is in the store
    rExists,             \* rExists[r]: the Resource document r is in the store
    matchedResources,    \* Emergency.matchedResources: [id, status, matchScore], id a resource
    matchedEmergencies,  \* Resource.matchedEmergencies: [id, status, matchScore], id an emergency
    resourceStatus,      \* Resource.status
    resourcesNeeded,     \* Emergency.resourcesNeeded: [type, fulfilled]
    emitted,             \* the Notification documents the last request created
    last,                \* the last request answered and its response
    req,                 \* SpecConc: the requests in flight, one per connection
    rank                 \* SpecRank: a call of a ranking function, arguments and result

storeVars == <<eExists, rExists, matchedResources, matchedEmergencies, resourceStatus,
               resourcesNeeded>>
vars == <<eExists, rExists, matchedResources, matchedEmergencies, resourceStatus,
          resourcesNeeded, emitted, last, req, rank>>

Conns == {1, 2}

\* pc: the await the handler is at; idx, jdx, kdx, score, seen: what it holds of
\* the documents it read (seen: the status of the match as read); stale: the
\* version of the resource moved since it was read; code: the response
Idle == [pc |-> "idle", op |-> "none", e |-> "none", r |-> "none", idx |-> 0, jdx |-> 0,
         kdx |-> 0, score |-> 0, seen |-> "none", stale |-> FALSE, code |-> 0]

\* no ranking function is being called on its own
NoCall == [fn |-> "none"]

AllIdle == \A c \in Conns : req[c].pc = "idle"

Init ==
    /\ eExists = [e \in Emergencies |-> TRUE]
    /\ rExists = [r \in Resources |-> TRUE]
    /\ matchedResources = [e \in Emergencies |-> << >>]
    /\ matchedEmergencies = [r \in Resources |-> << >>]
    /\ resourceStatus = [r \in Resources |-> "available"]
    /\ resourcesNeeded = [e \in Emergencies |-> InitialNeeds(e)]
    /\ emitted = << >>
    /\ last = [op |-> "none", e |-> "none", r |-> "none", code |-> 0]
    /\ req = [c \in Conns |-> Idle]
    /\ rank = NoCall

\* res.status(code), or the error handed to next() / thrown: 500 is an exception
\* no handler catches (a TypeError on null, a Mongoose validation error)
Respond(op, e, r, code, created) ==
    /\ last' = [op |-> op, e |-> e, r |-> r, code |-> code]
    /\ emitted' = created

(***************************************************************************)
(* Helpers of the handlers.                                                *)
(***************************************************************************)
\* Array.prototype.find / findIndex on a match list: the first index whose
\* counterpart is id, 0 when there is none
FindMatch(list, id) ==
    IF \E i \in 1..Len(list) : list[i].id = id
    THEN CHOOSE i \in 1..Len(list) :
             list[i].id = id /\ \A j \in 1..(i - 1) : list[j].id # id
    ELSE 0

\* emergency.resourcesNeeded.findIndex(need => need.type === type && !need.fulfilled)
FindNeed(needs, type) ==
    IF \E i \in 1..Len(needs) : needs[i].type = type /\ ~needs[i].fulfilled
    THEN CHOOSE i \in 1..Len(needs) :
             /\ needs[i].type = type /\ ~needs[i].fulfilled
             /\ \A j \in 1..(i - 1) : ~(needs[j].type = type /\ ~needs[j].fulfilled)
    ELSE 0

\* doc.user is the caller, or doc.assignedTo is, or the caller is an admin
IsOwnerAssignedOrAdmin(doc, user) ==
    ~ ( /\ doc.user # user
        /\ (doc.assignedTo = NoUser \/ doc.assignedTo # user)
        /\ Role(user) # "admin" )

\* Notification.create: the type must be one of the schema's enum and the
\* collection must take the write
NotificationCreated(type, sinkUp) == sinkUp /\ type \in NotificationTypes

Notification(type, user, e, r) == [type |-> type, user |-> user, emergency |-> e, resource |-> r]

\* Resource.find({ status: 'available' })
AvailableResources ==
    LET ids == SelectSeq(ResourceOrder, LAMBDA r : rExists[r] /\ resourceStatus[r] = "available")
    IN  [i \in 1..Len(ids) |-> [_id |-> ids[i], type |-> ResourceDoc(ids[i]).type,
                                 status |-> resourceStatus[ids[i]],
                                 quantity |-> ResourceDoc(ids[i]).quantity,
                                 location |-> ResourceDoc(ids[i]).location]]

\* Emergency.find({ status: 'active' })
ActiveEmergencies ==
    LET ids == SelectSeq(EmergencyOrder,
                         LAMBDA e : eExists[e] /\ EmergencyDoc(e).status = "active")
    IN  [i \in 1..Len(ids) |-> EmergencyDoc(ids[i])]

\* matches.map(match => ({ resource / emergency, matchScore, status: 'pending' }))
AsPending(matches) ==
    [i \in 1..Len(matches) |->
        [id |-> matches[i].id, status |-> "pending", matchScore |-> matches[i].matchScore]]

(***************************************************************************)
(* The handlers, each run from request to response.                        *)
(***************************************************************************)
\* GET /emergencies/:id/match
matchResourcesForEmergency(e, user) ==
    LET Answer(code) == Respond("matchResourcesForEmergency", e, "none", code, << >>)
    IN
    /\ AllIdle
    /\ UNCHANGED <<req, rank>>
    /\ IF ~eExists[e]
       THEN Answer(404) /\ UNCHANGED storeVars
       ELSE IF ~IsOwnerAssignedOrAdmin(EmergencyDoc(e), user)
       THEN Answer(401) /\ UNCHANGED storeVars
       ELSE LET matches == matchResourcesToEmergency(EmergencyDoc(e), AvailableResources,
                                                     DefaultMaxDistance)
            IN  /\ matchedResources' = [matchedResources EXCEPT ![e] = AsPending(matches)]
                /\ Answer(200)
                /\ UNCHANGED <<eExists, rExists, matchedEmergencies, resourceStatus,
                               resourcesNeeded>>

\* GET /resources/:id/match
matchEmergenciesForResource(r, user) ==
    LET Answer(code) == Respond("matchEmergenciesForResource", "none", r, code, << >>)
    IN
    /\ AllIdle
    /\ UNCHANGED <<req, rank>>
    /\ IF ~rExists[r]
       THEN Answer(404) /\ UNCHANGED storeVars
       ELSE IF ~IsOwnerAssignedOrAdmin(ResourceDoc(r), user)
       THEN Answer(401) /\ UNCHANGED storeVars
       ELSE LET resource == [_id |-> r, type |-> ResourceDoc(r).type,
                             quantity |-> ResourceDoc(r).quantity,
                             location |-> ResourceDoc(r).location]
                matches == matchEmergenciesToResource(resource, ActiveEmergencies,
                                                      DefaultMaxDistance)
            IN  /\ matchedEmergencies' = [matchedEmergencies EXCEPT ![r] = AsPending(matches)]
                /\ Answer(200)
                /\ UNCHANGED <<eExists, rExists, matchedResources, resourceStatus,
                               resourcesNeeded>>

\* the ternary with its branches exchanged
NewMatchStatusSwapped(action) == IF action = "accept" THEN "rejected" ELSE "accepted"

\* action === 'accept' ? 'accepted' : 'rejected'
NewMatchStatus(action) == IF action = "accept" THEN "accepted" ELSE "rejected"

\* an entry that does not take the score of the emergency's entry
AcceptedEntryUnscored(e, resourceMatch) ==
    [id |-> e, status |-> "accepted", matchScore |-> 0]

\* the entry updateMatchStatus pushes onto Resource.matchedEmergencies
AcceptedEntry(e, resourceMatch) ==
    [id |-> e, status |-> "accepted", matchScore |-> resourceMatch.matchScore]

\* the resource status updateMatchStatus sets on accept
StatusOnAccept == "reserved"

\* PUT /emergencies/:id/match/:resourceId
updateMatchStatus(e, r, action, user, sinkUp) ==
    LET idx == FindMatch(matchedResources[e], r)
        resourceMatch == matchedResources[e][idx]
        Answer(code) == Respond("updateMatchStatus", e, r, code, << >>)
    IN
    /\ AllIdle
    /\ UNCHANGED <<req, rank>>
    /\ IF action \notin {"accept", "reject"}
       THEN Answer(400) /\ UNCHANGED storeVars
       ELSE IF ~eExists[e]
       THEN Answer(404) /\ UNCHANGED storeVars
       ELSE IF ~IsOwnerAssignedOrAdmin(EmergencyDoc(e), user)
       THEN Answer(401) /\ UNCHANGED storeVars
       ELSE IF idx = 0
       THEN Answer(404) /\ UNCHANGED storeVars
       ELSE \* resourceMatch.status = ...; await emergency.save()
            /\ matchedResources' =
                   [matchedResources EXCEPT ![e][idx].status = NewMatchStatus(action)]
            /\ UNCHANGED <<eExists, rExists, resourcesNeeded>>
            /\ IF action # "accept"
               THEN Answer(200) /\ UNCHANGED <<matchedEmergencies, resourceStatus>>
               ELSE IF ~rExists[r]
               THEN \* Resource.findById gives null: resource.status throws
                    Answer(500) /\ UNCHANGED <<matchedEmergencies, resourceStatus>>
               ELSE /\ Len(matchedEmergencies[r]) < MaxRefs
                    /\ resourceStatus' = [resourceStatus EXCEPT ![r] = StatusOnAccept]
                    /\ matchedEmergencies' =
                           [matchedEmergencies EXCEPT
                               ![r] = Append(@, AcceptedEntry(e, resourceMatch))]
                    /\ IF NotificationCreated("match_accepted", sinkUp)
                       THEN Respond("updateMatchStatus", e, r, 200,
                                    << Notification("match_accepted", ResourceDoc(r).user,
                                                    e, r) >>)
                       ELSE Answer(500)

\* a guard that only asks for an entry, whatever its status
NotListedHere(list, idx) == idx = 0

\* the guard of markResourceDelivered on the resource's entry for the emergency
NotAcceptedHere(list, idx) == idx = 0 \/ list[idx].status # "accepted"

\* PUT /resources/:id/deliver/:emergencyId
markResourceDelivered(r, e, user, sinkUp) ==
    LET idx == FindMatch(matchedEmergencies[r], e)
        jdx == FindMatch(matchedResources[e], r)
        kdx == FindNeed(resourcesNeeded[e], ResourceDoc(r).type)
        Answer(code) == Respond("markResourceDelivered", e, r, code, << >>)
    IN
    /\ AllIdle
    /\ UNCHANGED <<req, rank>>
    /\ IF ~rExists[r]
       THEN Answer(404) /\ UNCHANGED storeVars
       ELSE IF ~IsOwnerAssignedOrAdmin(ResourceDoc(r), user)
       THEN Answer(401) /\ UNCHANGED storeVars
       ELSE IF NotAcceptedHere(matchedEmergencies[r], idx)
       THEN Answer(404) /\ UNCHANGED storeVars
       ELSE \* resource.status = 'delivered'; emergencyMatch.status = 'delivered'; save
            /\ resourceStatus' = [resourceStatus EXCEPT ![r] = "delivered"]
            /\ matchedEmergencies' = [matchedEmergencies EXCEPT ![r][idx].status = "delivered"]
            /\ UNCHANGED <<eExists, rExists>>
            /\ IF ~eExists[e]
               THEN \* Emergency.findById gives null: emergency.matchedResources throws
                    Answer(500) /\ UNCHANGED <<matchedResources, resourcesNeeded>>
               ELSE /\ IF jdx # 0
                       THEN /\ matchedResources' =
                                   [matchedResources EXCEPT ![e][jdx].status = "delivered"]
                            /\ resourcesNeeded' =
                                   IF kdx # 0
                                   THEN [resourcesNeeded EXCEPT ![e][kdx].fulfilled = TRUE]
                                   ELSE resourcesNeeded
                       ELSE UNCHANGED <<matchedResources, resourcesNeeded>>
                    /\ IF NotificationCreated("resource_delivered", sinkUp)
                       THEN Respond("markResourceDelivered", e, r, 200,
                                    << Notification("resource_delivered",
                                                    EmergencyDoc(e).user, e, r) >>)
                       ELSE Answer(500)

\* PUT /emergencies/:id/resources/:resourceId, EmergencyService.updateResourceMatch
updateResourceMatch(e, r, status, user) ==
    LET matchIndex == FindMatch(matchedResources[e], r)
        Answer(code) == Respond("updateResourceMatch", e, r, code, << >>)
    IN
    /\ AllIdle
    /\ UNCHANGED <<req, rank>>
    /\ IF status \notin MatchStatuses
       THEN Answer(400) /\ UNCHANGED storeVars
       ELSE IF ~eExists[e]
       THEN Answer(404) /\ UNCHANGED storeVars
       ELSE IF matchIndex = 0
       THEN Answer(404) /\ UNCHANGED storeVars
       ELSE /\ matchedResources' = [matchedResources EXCEPT ![e][matchIndex].status = status]
            /\ Answer(200)
            /\ UNCHANGED <<eExists, rExists, matchedEmergencies, resourceStatus,
                           resourcesNeeded>>

\* matchResourcesToEmergency(updatedEmergency), called without a pool: resources
\* is undefined, resources.filter throws and the catch returns []
matchResourcesToEmergencyNoPool(emergency) == << >>

\* what req.body of PUT /emergencies/:id holds: a new title, or the location of
\* the emergency as it is stored
UpdateDataValues == {"title", "location"}

\* PUT /emergencies/:id, EmergencyService.updateEmergency
updateEmergency(e, updateData, user) ==
    LET Answer(code) == Respond("updateEmergency", e, "none", code, << >>)
    IN
    /\ AllIdle
    /\ UNCHANGED <<req, rank>>
    /\ IF ~eExists[e]
       THEN Answer(404) /\ UNCHANGED storeVars
       ELSE IF EmergencyDoc(e).user # user
       THEN Answer(403) /\ UNCHANGED storeVars
       ELSE /\ matchedResources' =
                   IF updateData = "location"
                   THEN [matchedResources EXCEPT
                            ![e] = matchResourcesToEmergencyNoPool(EmergencyDoc(e))]
                   ELSE matchedResources
            /\ Answer(200)
            /\ UNCHANGED <<eExists, rExists, matchedEmergencies, resourceStatus,
                           resourcesNeeded>>

\* the statuses the validator of PUT /resources/:id/status lets through
StatusRouteValues == {"available", "reserved", "deployed", "unavailable"}

\* PUT /resources/:id/status, ResourceService.updateResourceStatus
updateResourceStatus(r, status, user) ==
    LET Answer(code) == Respond("updateResourceStatus", "none", r, code, << >>)
    IN
    /\ AllIdle
    /\ UNCHANGED <<req, rank>>
    /\ IF status \notin StatusRouteValues
       THEN Answer(400) /\ UNCHANGED storeVars
       ELSE IF ~rExists[r]
       THEN Answer(404) /\ UNCHANGED storeVars
       ELSE IF ResourceDoc(r).user # user
       THEN Answer(403) /\ UNCHANGED storeVars
       ELSE IF status \notin ResourceStatuses
       THEN \* findByIdAndUpdate with runValidators rejects the value
            Answer(500) /\ UNCHANGED storeVars
       ELSE /\ resourceStatus' = [resourceStatus EXCEPT ![r] = status]
            /\ Answer(200)
            /\ UNCHANGED <<eExists, rExists, matchedResources, matchedEmergencies,
                           resourcesNeeded>>

\* DELETE /emergencies/:id
deleteEmergency(e, user) ==
    LET Answer(code) == Respond("deleteEmergency", e, "none", code, << >>)
    IN
    /\ AllIdle
    /\ UNCHANGED <<req, rank>>
    /\ IF ~eExists[e]
       THEN Answer(404) /\ UNCHANGED storeVars
       ELSE IF EmergencyDoc(e).user # user /\ Role(user) # "admin"
       THEN Answer(403) /\ UNCHANGED storeVars
       ELSE /\ eExists' = [eExists EXCEPT ![e] = FALSE]
            /\ matchedResources' = [matchedResources EXCEPT ![e] = << >>]
            /\ resourcesNeeded' = [resourcesNeeded EXCEPT ![e] = << >>]
            /\ Answer(200)
            /\ UNCHANGED <<rExists, matchedEmergencies, resourceStatus>>

\* DELETE /resources/:id
deleteResource(r, user) ==
    LET Answer(code) == Respond("deleteResource", "none", r, code, << >>)
    IN
    /\ AllIdle
    /\ UNCHANGED <<req, rank>>
    /\ IF ~rExists[r]
       THEN Answer(404) /\ UNCHANGED storeVars
       ELSE IF ResourceDoc(r).user # user
       THEN Answer(403) /\ UNCHANGED storeVars
       ELSE /\ rExists' = [rExists EXCEPT ![r] = FALSE]
            /\ matchedEmergencies' = [matchedEmergencies EXCEPT ![r] = << >>]
            /\ resourceStatus' = [resourceStatus EXCEPT ![r] = "none"]
            /\ Answer(200)
            /\ UNCHANGED <<eExists, matchedResources, resourcesNeeded>>

\* whether the notifications collection takes a write while the request runs:
\* it is up or down for an accept, whose notification the schema admits, and of
\* no consequence for a request that creates none or one the schema refuses
SinkValues(action) == IF action = "accept" THEN BOOLEAN ELSE {TRUE}

\* the values a request may carry
ActionValues == {"accept", "reject", "deliver"}
ResourceStatusValues == {"available", "reserved", "deployed"}

Next ==
    \/ \E e \in Emergencies, user \in Users : matchResourcesForEmergency(e, user)
    \/ \E r \in Resources, user \in Users : matchEmergenciesForResource(r, user)
    \/ \E e \in Emergencies, r \in Resources, action \in ActionValues, user \in Users :
          \E sinkUp \in SinkValues(action) : updateMatchStatus(e, r, action, user, sinkUp)
    \/ \E r \in Resources, e \in Emergencies, user \in Users, sinkUp \in SinkValues("deliver") :
          markResourceDelivered(r, e, user, sinkUp)
    \/ \E e \in Emergencies, r \in Resources, status \in MatchStatuses, user \in Users :
          updateResourceMatch(e, r, status, user)
    \/ \E r \in Resources, status \in ResourceStatusValues, user \in Users :
          updateResourceStatus(r, status, user)
    \/ \E e \in Emergencies, updateData \in UpdateDataValues, user \in Users :
          updateEmergency(e, updateData, user)
    \/ \E e \in Emergencies, user \in Users : deleteEmergency(e, user)
    \/ \E r \in Resources, user \in Users : deleteResource(r, user)

Spec == Init /\ [][Next]_vars

(***************************************************************************)
(* updateMatchStatus and markResourceDelivered split at their awaits.  A   *)
(* connection holds one request; what the handler keeps in local variables *)
(* between two awaits is in req.  Mongoose sends a save as an update of    *)
(* the modified paths: a status set through an array index goes to that    *)
(* index and is refused with a VersionError when the array's version moved *)
(* since the document was read; a push moves the version.                  *)
(***************************************************************************)
Done(op, e, r, seen, code) ==
    [Idle EXCEPT !.pc = "done", !.op = op, !.e = e, !.r = r, !.seen = seen, !.code = code]

\* const emergency = await Emergency.findById(...), and the checks up to the save
umsFind(c, e, r, action, user) ==
    LET idx == FindMatch(matchedResources[e], r)
        Fail(code) == req' = [req EXCEPT ![c] = Done(action, e, r, "none", code)]
    IN
    /\ req[c].pc = "idle"
    /\ UNCHANGED rank
    /\ UNCHANGED <<storeVars, emitted, last>>
    /\ IF action \notin {"accept", "reject"} THEN Fail(400)
       ELSE IF ~eExists[e] THEN Fail(404)
       ELSE IF ~IsOwnerAssignedOrAdmin(EmergencyDoc(e), user) THEN Fail(401)
       ELSE IF idx = 0 THEN Fail(404)
       ELSE req' = [req EXCEPT ![c] = [Idle EXCEPT !.pc = "saveEmergency", !.op = action,
                                                   !.e = e, !.r = r, !.idx = idx,
                                                   !.score = matchedResources[e][idx].matchScore,
                                                   !.seen = matchedResources[e][idx].status]]

\* await emergency.save()
umsSaveEmergency(c) ==
    LET q == req[c]
    IN
    /\ q.pc = "saveEmergency"
    /\ UNCHANGED rank
    /\ matchedResources' =
           [matchedResources EXCEPT ![q.e][q.idx].status = NewMatchStatus(q.op)]
    /\ req' = [req EXCEPT ![c] = IF q.op = "accept"
                                 THEN [q EXCEPT !.pc = "saveResource"]
                                 ELSE Done(q.op, q.e, q.r, q.seen, 200)]
    /\ UNCHANGED <<eExists, rExists, matchedEmergencies, resourceStatus, resourcesNeeded,
                   emitted, last>>

\* const resource = await Resource.findById(...); ...; await resource.save()
umsSaveResource(c) ==
    LET q == req[c]
    IN
    /\ q.pc = "saveResource"
    /\ UNCHANGED rank
    /\ IF ~rExists[q.r]
       THEN /\ req' = [req EXCEPT ![c] = Done(q.op, q.e, q.r, q.seen, 500)]
            /\ UNCHANGED <<matchedEmergencies, resourceStatus>>
       ELSE /\ Len(matchedEmergencies[q.r]) < MaxRefs
            /\ resourceStatus' = [resourceStatus EXCEPT ![q.r] = StatusOnAccept]
            /\ matchedEmergencies' =
                   [matchedEmergencies EXCEPT
                       ![q.r] = Append(@, AcceptedEntry(q.e, [matchScore |-> q.score]))]
            /\ req' = [d \in Conns |->
                          IF d = c THEN [q EXCEPT !.pc = "notifyAccepted"]
                          ELSE IF req[d].pc = "saveDelivered" /\ req[d].r = q.r
                          THEN [req[d] EXCEPT !.stale = TRUE]
                          ELSE req[d]]
    /\ UNCHANGED <<eExists, rExists, matchedResources, resourcesNeeded, emitted, last>>

\* await Notification.create({ type: 'match_accepted', ... }); res.status(200)
umsNotify(c, sinkUp) ==
    LET q == req[c]
    IN
    /\ q.pc = "notifyAccepted"
    /\ UNCHANGED rank
    /\ IF NotificationCreated("match_accepted", sinkUp)
       THEN /\ emitted' = << Notification("match_accepted", ResourceDoc(q.r).user, q.e, q.r) >>
            /\ req' = [req EXCEPT ![c] = Done(q.op, q.e, q.r, q.seen, 200)]
       ELSE /\ UNCHANGED emitted
            /\ req' = [req EXCEPT ![c] = Done(q.op, q.e, q.r, q.seen, 500)]
    /\ UNCHANGED <<storeVars, last>>

\* const resource = await Resource.findById(...), and the checks up to the save
mrdFind(c, r, e, user) ==
    LET idx == FindMatch(matchedEmergencies[r], e)
        Fail(code) == req' = [req EXCEPT ![c] = Done("deliver", e, r, "none", code)]
    IN
    /\ req[c].pc = "idle"
    /\ UNCHANGED rank
    /\ UNCHANGED <<storeVars, emitted, last>>
    /\ IF ~rExists[r] THEN Fail(404)
       ELSE IF ~IsOwnerAssignedOrAdmin(ResourceDoc(r), user) THEN Fail(401)
       ELSE IF NotAcceptedHere(matchedEmergencies[r], idx) THEN Fail(404)
       ELSE req' = [req EXCEPT ![c] = [Idle EXCEPT !.pc = "saveDelivered", !.op = "deliver",
                                                   !.e = e, !.r = r, !.idx = idx,
                                                   !.seen = matchedEmergencies[r][idx].status]]

\* await resource.save()
mrdSaveResource(c) ==
    LET q == req[c]
    IN
    /\ q.pc = "saveDelivered"
    /\ UNCHANGED rank
    /\ IF q.stale
       THEN /\ req' = [req EXCEPT ![c] = Done(q.op, q.e, q.r, q.seen, 500)]
            /\ UNCHANGED <<matchedEmergencies, resourceStatus>>
       ELSE /\ resourceStatus' = [resourceStatus EXCEPT ![q.r] = "delivered"]
            /\ matchedEmergencies' =
                   [matchedEmergencies EXCEPT ![q.r][q.idx].status = "delivered"]
            /\ req' = [req EXCEPT ![c] = [q EXCEPT !.pc = "findEmergency"]]
    /\ UNCHANGED <<eExists, rExists, matchedResources, resourcesNeeded, emitted, last>>

\* const emergency = await Emergency.findById(...), and the lookups up to the save
mrdFindEmergency(c) ==
    LET q == req[c]
        jdx == FindMatch(matchedResources[q.e], q.r)
        kdx == FindNeed(resourcesNeeded[q.e], ResourceDoc(q.r).type)
    IN
    /\ q.pc = "findEmergency"
    /\ UNCHANGED rank
    /\ req' = [req EXCEPT ![c] =
                  IF ~eExists[q.e] THEN Done(q.op, q.e, q.r, q.seen, 500)
                  ELSE IF jdx = 0 THEN [q EXCEPT !.pc = "notifyDelivered"]
                  ELSE [q EXCEPT !.pc = "saveEmergencyDelivered", !.jdx = jdx, !.kdx = kdx]]
    /\ UNCHANGED <<storeVars, emitted, last>>

\* await emergency.save()
mrdSaveEmergency(c) ==
    LET q == req[c]
    IN
    /\ q.pc = "saveEmergencyDelivered"
    /\ UNCHANGED rank
    /\ matchedResources' = [matchedResources EXCEPT ![q.e][q.jdx].status = "delivered"]
    /\ resourcesNeeded' = IF q.kdx # 0
                          THEN [resourcesNeeded EXCEPT ![q.e][q.kdx].fulfilled = TRUE]
                          ELSE resourcesNeeded
    /\ req' = [req EXCEPT ![c] = [q EXCEPT !.pc = "notifyDelivered"]]
    /\ UNCHANGED <<eExists, rExists, matchedEmergencies, resourceStatus, emitted, last>>

\* await Notification.create({ type: 'resource_delivered', ... }); res.status(200)
mrdNotify(c, sinkUp) ==
    LET q == req[c]
    IN
    /\ q.pc = "notifyDelivered"
    /\ UNCHANGED rank
    /\ IF NotificationCreated("resource_delivered", sinkUp)
       THEN /\ emitted' = << Notification("resource_delivered", EmergencyDoc(q.e).user,
                                          q.e, q.r) >>
            /\ req' = [req EXCEPT ![c] = Done(q.op, q.e, q.r, q.seen, 200)]
       ELSE /\ UNCHANGED emitted
            /\ req' = [req EXCEPT ![c] = Done(q.op, q.e, q.r, q.seen, 500)]
    /\ UNCHANGED <<storeVars, last>>

\* the response has gone out and the connection takes the next request
Return(c) ==
    /\ req[c].pc = "done"
    /\ UNCHANGED rank
    /\ req' = [req EXCEPT ![c] = Idle]
    /\ UNCHANGED <<storeVars, emitted, last>>

\* the emergencies the interleaved requests are about
ConcEmergencies == {"e1"}

NextConc ==
    \/ \E e \in ConcEmergencies, user \in Users : matchResourcesForEmergency(e, user)
    \/ \E r \in Resources, user \in Users : matchEmergenciesForResource(r, user)
    \/ \E c \in Conns, e \in ConcEmergencies, r \in Resources, action \in ActionValues,
          user \in Users : umsFind(c, e, r, action, user)
    \/ \E c \in Conns : umsSaveEmergency(c)
    \/ \E c \in Conns : umsSaveResource(c)
    \/ \E c \in Conns, sinkUp \in BOOLEAN : umsNotify(c, sinkUp)
    \/ \E c \in Conns, r \in Resources, e \in ConcEmergencies, user \in Users :
          mrdFind(c, r, e, user)
    \/ \E c \in Conns : mrdSaveResource(c)
    \/ \E c \in Conns : mrdFindEmergency(c)
    \/ \E c \in Conns : mrdSaveEmergency(c)
    \/ \E c \in Conns, sinkUp \in BOOLEAN : mrdNotify(c, sinkUp)
    \/ \E c \in Conns : Return(c)

SpecConc == Init /\ [][NextConc]_vars

(***************************************************************************)
(* The ranking functions called on their own: a call holds an anchor, a    *)
(* pool of candidates and a maxDistance, and returns a ranked list.        *)
(***************************************************************************)
\* longest pool of candidates handed to a ranking function
MaxPool == 2

\* quantities of the documents handed to a call: missing, negative, zero, positive
Quantities == {Undefined, -5, 0, 10}

\* latitudes of the candidates, hundredths of a degree on the meridian of the
\* anchor: 0 km, 10.01 km and 50.04 km away from an anchor at latitude 0
Latitudes == {0, 9, 45}

MaxDistances == {10, DefaultMaxDistance}

\* where a candidate is, if it has a location
Locations == {<<0, lat>> : lat \in Latitudes} \cup {NoLocation}

ResourceInputs ==
    [_id : {"resource1", "r1", "r2"}, type : {"medical", "water"},
     status : {"available", "reserved"}, quantity : Quantities, location : Locations]

EmergencyAnchors ==
    [_id : {"e1"}, type : {"medical"}, status : {"active"}, urgency : {"high"},
     quantity : Quantities, location : {<<0, 0>>, <<10000, 10000>>, NoLocation}]

EmergencyInputs ==
    [_id : {"emergency1", "e1", "e2"}, type : {"medical", "fire"}, status : {"active"},
     urgency : {"critical", "severe"}, quantity : Quantities, location : Locations]

ResourceAnchors ==
    [_id : {"r1", "undefined"}, type : {"medical"}, quantity : Quantities,
     location : {<<0, 0>>, NoLocation}]

\* the sequences of at most MaxPool documents of S, no two with the same _id
Pools(S) ==
    {pool \in UNION {[1..n -> S] : n \in 0..MaxPool} :
        \A i \in 1..Len(pool), j \in 1..Len(pool) : i # j => pool[i]._id # pool[j]._id}

Calls ==
    [fn : {"matchResourcesToEmergency"}, anchor : EmergencyAnchors,
     pool : Pools(ResourceInputs), maxDistance : MaxDistances,
     returned : {FALSE}, result : {<< >>}]
    \cup
    [fn : {"matchEmergenciesToResource"}, anchor : ResourceAnchors,
     pool : Pools(EmergencyInputs), maxDistance : MaxDistances,
     returned : {FALSE}, result : {<< >>}]

InitRank ==
    /\ eExists = [e \in Emergencies |-> TRUE]
    /\ rExists = [r \in Resources |-> TRUE]
    /\ matchedResources = [e \in Emergencies |-> << >>]
    /\ matchedEmergencies = [r \in Resources |-> << >>]
    /\ resourceStatus = [r \in Resources |-> "available"]
    /\ resourcesNeeded = [e \in Emergencies |-> InitialNeeds(e)]
    /\ emitted = << >>
    /\ last = [op |-> "none", e |-> "none", r |-> "none", code |-> 0]
    /\ req = [c \in Conns |-> Idle]
    /\ rank \in Calls

\* matchResourcesToEmergency(emergency, resources, maxDistance) returns
callMatchResourcesToEmergency ==
    /\ rank.fn = "matchResourcesToEmergency"
    /\ ~rank.returned
    /\ rank' = [rank EXCEPT !.returned = TRUE,
                            !.result = matchResourcesToEmergency(rank.anchor, rank.pool,
                                                                 rank.maxDistance)]
    /\ UNCHANGED <<storeVars, emitted, last, req>>

\* matchEmergenciesToResource(resource, emergencies, maxDistance) returns
callMatchEmergenciesToResource ==
    /\ rank.fn = "matchEmergenciesToResource"
    /\ ~rank.returned
    /\ rank' = [rank EXCEPT !.returned = TRUE,
                            !.result = matchEmergenciesToResource(rank.anchor, rank.pool,
                                                                  rank.maxDistance)]
    /\ UNCHANGED <<storeVars, emitted, last, req>>

NextRank == callMatchResourcesToEmergency \/ callMatchEmergenciesToResource

SpecRank == InitRank /\ [][NextRank]_vars

(***************************************************************************)
(* The ranking functions called with one candidate, placed at one of a     *)
(* finer range of distances from an anchor at latitude 0.                  *)
(***************************************************************************)
\* 0 km, 4.45 km, 10.01 km, 30.02 km, 48.93 km and 50.04 km from the anchor
ScoreLatitudes == {0, 4, 9, 27, 44, 45}

ScoreLocations == {<<0, lat>> : lat \in ScoreLatitudes}

ScoreCalls ==
    [fn : {"matchResourcesToEmergency"},
     anchor : {a \in EmergencyAnchors : a.location = <<0, 0>>},
     pool : {<< doc >> : doc \in [_id : {"resource1", "r1"}, type : {"medical"},
                                  status : {"available"}, quantity : Quantities,
                                  location : ScoreLocations]},
     maxDistance : MaxDistances, returned : {FALSE}, result : {<< >>}]
    \cup
    [fn : {"matchEmergenciesToResource"},
     anchor : {a \in ResourceAnchors : a.location = <<0, 0>>},
     pool : {<< doc >> : doc \in [_id : {"emergency1", "e1"}, type : {"medical"},
                                  status : {"active"}, urgency : {"critical", "severe"},
                                  quantity : Quantities, location : ScoreLocations]},
     maxDistance : MaxDistances, returned : {FALSE}, result : {<< >>}]

InitScore ==
    /\ eExists = [e \in Emergencies |-> TRUE]
    /\ rExists = [r \in Resources |-> TRUE]
    /\ matchedResources = [e \in Emergencies |-> << >>]
    /\ matchedEmergencies = [r \in Resources |-> << >>]
    /\ resourceStatus = [r \in Resources |-> "available"]
    /\ resourcesNeeded = [e \in Emergencies |-> InitialNeeds(e)]
    /\ emitted = << >>
    /\ last = [op |-> "none", e |-> "none", r |-> "none", code |-> 0]
    /\ req = [c \in Conns |-> Idle]
    /\ rank \in ScoreCalls

SpecScore == InitScore /\ [][NextRank]_vars

(***************************************************************************)
(* The two views of a match.                                               *)
(***************************************************************************)
\* the indexes of the entries of a match list whose counterpart is id
EntriesFor(list, id) == {i \in 1..Len(list) : list[i].id = id}

\* the status an emergency shows for a resource, as a find on its list reads it
EStatus(e, r) ==
    LET i == FindMatch(matchedResources[e], r)
    IN  IF i = 0 THEN "none" ELSE matchedResources[e][i].status

\* the status a resource shows for an emergency, as a find on its list reads it
RStatus(r, e) ==
    LET i == FindMatch(matchedEmergencies[r], e)
    IN  IF i = 0 THEN "none" ELSE matchedEmergencies[r][i].status

\* the score an emergency holds for a resource, 0 when it lists none
EScore(e, r) ==
    LET i == FindMatch(matchedResources[e], r)
    IN  IF i = 0 THEN 0 ELSE matchedResources[e][i].matchScore

\* list holds one entry for id, and it has this status and this score
OnlyRef(list, id, status, score) ==
    \E i \in 1..Len(list) :
        /\ EntriesFor(list, id) = {i}
        /\ list[i] = [id |-> id, status |-> status, matchScore |-> score]

SettledStatuses == {"accepted", "rejected", "delivered"}

C2_OneAcceptWins ==
    \A c \in Conns, d \in Conns :
        ( /\ c # d
          /\ req[c].pc = "done" /\ req[d].pc = "done"
          /\ req[c].op = "accept" /\ req[d].op = "accept"
          /\ req[c].e = req[d].e /\ req[c].r = req[d].r
          /\ req[c].seen = "pending" /\ req[d].seen = "pending" )
        => /\ ~(req[c].code = 200 /\ req[d].code = 200)
           /\ Cardinality({j \in EntriesFor(matchedEmergencies[req[c].r], req[c].e) :
                              matchedEmergencies[req[c].r][j].status = "accepted"}) <= 1

(***************************************************************************)
(* C3                                                                      *)
(***************************************************************************)
\* C3: no step of an accept, a reject or a deliver shows one view without the
\* other: whenever a step moves the status one side shows for a pair to
\* accepted, rejected or delivered, the other side shows that status for the
\* pair after the same step.
C3_AtomicDualWrite ==
    [][\A e \in Emergencies, r \in Resources :
          /\ (EStatus(e, r)' # EStatus(e, r) /\ EStatus(e, r)' \in SettledStatuses)
                 => RStatus(r, e)' = EStatus(e, r)'
          /\ (RStatus(r, e)' # RStatus(r, e) /\ RStatus(r, e)' \in SettledStatuses)
                 => EStatus(e, r)' = RStatus(r, e)']_vars

(***************************************************************************)
(* C4                                                                      *)
(***************************************************************************)
AllowedTransition(s, t) ==
    \/ s = t
    \/ s = "pending" /\ t \in {"accepted", "rejected"}
    \/ s = "accepted" /\ t = "delivered"

\* C4: the status either side shows for a pair only moves pending -> accepted,
\* pending -> rejected or accepted -> delivered, whatever operation takes the
\* step; a rejected or delivered status never changes.
C4_Lifecycle ==
    [][\A e \in Emergencies, r \in Resources :
          /\ (EStatus(e, r) # "none" /\ EStatus(e, r)' # "none")
                 => AllowedTransition(EStatus(e, r), EStatus(e, r)')
          /\ (RStatus(r, e) # "none" /\ RStatus(r, e)' # "none")
                 => AllowedTransition(RStatus(r, e), RStatus(r, e)')]_vars

(***************************************************************************)
(* C5                                                                      *)
(***************************************************************************)
\* C5: an accept or a reject of a match the emergency shows as accepted,
\* rejected or delivered is refused: it is not answered 200, it changes no
\* document and it creates no notification.
C5_NotPendingRefused ==
    [][\A e \in Emergencies, r \in Resources, action \in {"accept", "reject"},
          user \in Users, sinkUp \in BOOLEAN :
          ( /\ eExists[e]
            /\ EStatus(e, r) \in SettledStatuses
            /\ updateMatchStatus(e, r, action, user, sinkUp) )
          => /\ last'.code # 200
             /\ UNCHANGED storeVars
             /\ emitted' = << >>]_vars

(***************************************************************************)
(* The step a handler took: last' names the handler that answered and the  *)
(* pair of its request.                                                    *)
(***************************************************************************)
Answered(op, e, r) == last'.op = op /\ last'.e = e /\ last'.r = r

(***************************************************************************)
(* C6                                                                      *)
(***************************************************************************)
\* C6: a deliver of a match that the resource shows as pending or rejected,
\* or does not list, is answered with an error and has no effect:
\* Resource.status, both match lists and every fulfilled flag stay as they
\* were, and no notification is created.
C6_DeliverRefused ==
    [][\A r \in Resources, e \in Emergencies :
          ( /\ Answered("markResourceDelivered", e, r)
            /\ rExists[r]
            /\ RStatus(r, e) \in {"none", "pending", "rejected"}
            /\ \E user \in Users, sinkUp \in BOOLEAN :
                   markResourceDelivered(r, e, user, sinkUp) )
          => /\ last'.code \in {401, 404}
             /\ UNCHANGED storeVars
             /\ emitted' = << >>]_vars

\* a deliver of a match the resource shows as pending has been refused
C6_Witness ==
    /\ last.op = "markResourceDelivered"
    /\ last.code = 404
    /\ rExists[last.r]
    /\ RStatus(last.r, last.e) = "pending"
    /\ EStatus(last.e, last.r) = "pending"

(***************************************************************************)
(* C7                                                                      *)
(***************************************************************************)
\* neither side lists the other
NoMatch(e, r) ==
    EntriesFor(matchedResources[e], r) = {} /\ EntriesFor(matchedEmergencies[r], e) = {}

\* the ranking of the emergency has proposed the resource with score s
Proposed(e, r, s) ==
    /\ rExists[r]
    /\ OnlyRef(matchedResources[e], r, "pending", s)
    /\ EntriesFor(matchedEmergencies[r], e) = {}

\* each side holds one entry for the other, with this status and score s
Both(e, r, status, s) ==
    /\ OnlyRef(matchedResources[e], r, status, s)
    /\ OnlyRef(matchedEmergencies[r], e, status, s)

\* the scores a ranking gives: Math.round of a weighted sum of percentages
Scores == 0..100

C8_ResourceSideAuthorization ==
    [][\A e \in Emergencies, r \in Resources, user \in Users :
          ~IsOwnerAssignedOrAdmin(ResourceDoc(r), user)
          => /\ \A action \in {"accept", "reject"}, sinkUp \in BOOLEAN :
                    updateMatchStatus(e, r, action, user, sinkUp)
                    => (last'.code # 200 /\ UNCHANGED storeVars)
             /\ \A sinkUp \in BOOLEAN :
                    markResourceDelivered(r, e, user, sinkUp)
                    => (last'.code # 200 /\ UNCHANGED storeVars)
             /\ \A status \in MatchStatuses :
                    updateResourceMatch(e, r, status, user)
                    => (last'.code # 200 /\ UNCHANGED storeVars)]_vars

C10_DeliverEffect ==
    [][\A r \in Resources, e \in Emergencies, user \in Users, sinkUp \in BOOLEAN :
          LET k == FindNeed(resourcesNeeded[e], ResourceDoc(r).type)
          IN  ( /\ rExists[r] /\ eExists[e]
                /\ IsOwnerAssignedOrAdmin(ResourceDoc(r), user)
                /\ RStatus(r, e) = "accepted"
                /\ markResourceDelivered(r, e, user, sinkUp) )
              => /\ resourceStatus'[r] = "delivered"
                 /\ resourcesNeeded'[e] =
                        IF k # 0 THEN [resourcesNeeded[e] EXCEPT ![k].fulfilled = TRUE]
                        ELSE resourcesNeeded[e]]_vars

IsRanking(op) == op \in {"matchResourcesForEmergency", "matchEmergenciesForResource"}

\* the score a resource holds for an emergency, 0 when it lists none
RScore(r, e) ==
    LET i == FindMatch(matchedEmergencies[r], e)
    IN  IF i = 0 THEN 0 ELSE matchedEmergencies[r][i].matchScore

\* C12: a ranking run for an anchor that already shows a pending or accepted
\* match for some counterpart is refused, and it leaves the status and the
\* score of every pending or accepted match as they were.
C12_NoDuplicateProposal ==
    [][\A e \in Emergencies, r \in Resources :
          /\ ( /\ last'.op = "matchResourcesForEmergency" /\ last'.e = e
               /\ \E user \in Users : matchResourcesForEmergency(e, user)
               /\ EStatus(e, r) \in {"pending", "accepted"} )
             => /\ last'.code # 200
                /\ EStatus(e, r)' = EStatus(e, r)
                /\ EScore(e, r)' = EScore(e, r)
          /\ ( /\ last'.op = "matchEmergenciesForResource" /\ last'.r = r
               /\ \E user \in Users : matchEmergenciesForResource(r, user)
               /\ RStatus(r, e) \in {"pending", "accepted"} )
             => /\ last'.code # 200
                /\ RStatus(r, e)' = RStatus(r, e)
                /\ RScore(r, e)' = RScore(r, e)]_vars

(***************************************************************************)
(* C13                                                                     *)
(***************************************************************************)
\* C13: while the emergency and the resource of a pair are both kept, no step
\* takes the pair off Emergency.matchedResources or off
\* Resource.matchedEmergencies.
C13_RefsStay ==
    [][\A e \in Emergencies, r \in Resources :
          (eExists'[e] /\ rExists'[r])
          => /\ EntriesFor(matchedResources[e], r) # {}
                    => EntriesFor(matchedResources'[e], r) # {}
             /\ EntriesFor(matchedEmergencies[r], e) # {}
                    => EntriesFor(matchedEmergencies'[r], e) # {}]_vars

(***************************************************************************)
(* C14                                                                     *)
(***************************************************************************)
\* C14: when a step puts a pair on a match list that did not hold it, the new
\* entry is pending and the step is one of a ranking handler.
C14_CreatedPending ==
    [][\A e \in Emergencies, r \in Resources :
          /\ EntriesFor(matchedResources[e], r) = {}
                 => \A i \in EntriesFor(matchedResources'[e], r) :
                        matchedResources'[e][i].status = "pending" /\ IsRanking(last'.op)
          /\ EntriesFor(matchedEmergencies[r], e) = {}
                 => \A j \in EntriesFor(matchedEmergencies'[r], e) :
                        matchedEmergencies'[r][j].status = "pending" /\ IsRanking(last'.op)]_vars

(***************************************************************************)
(* C15                                                                     *)
(***************************************************************************)
\* C15: an accept answered 200 has created one match_accepted notification
\* for the owner of the resource, a reject answered 200 one match_rejected
\* notification, a deliver that has set the resource's entry to delivered
\* one resource_delivered notification, and an accept, reject or deliver
\* that is answered with an error has created none.
C15_Events ==
    [][\A e \in Emergencies, r \in Resources :
          /\ ( /\ Answered("updateMatchStatus", e, r) /\ last'.code = 200
               /\ \E user \in Users : updateMatchStatus(e, r, "accept", user, TRUE) )
             => emitted' = << Notification("match_accepted", ResourceDoc(r).user, e, r) >>
          /\ ( /\ Answered("updateMatchStatus", e, r) /\ last'.code = 200
               /\ \E user \in Users : updateMatchStatus(e, r, "reject", user, TRUE) )
             => (Len(emitted') = 1 /\ emitted'[1].type = "match_rejected")
          /\ ( /\ Answered("markResourceDelivered", e, r)
               /\ RStatus(r, e) = "accepted" /\ RStatus(r, e)' = "delivered" )
             => (Len(emitted') = 1 /\ emitted'[1].type = "resource_delivered")
          /\ ( /\ last'.op \in {"updateMatchStatus", "markResourceDelivered"}
               /\ last'.e = e /\ last'.r = r
               /\ last'.code \in {400, 401, 404}
               /\ vars' # vars )
             => emitted' = << >>]_vars

(***************************************************************************)
(* C16                                                                     *)
(***************************************************************************)
\* C16: an accept of a pending match, by a caller the handler lets through,
\* that runs while the notifications collection takes no write, and a
\* deliver of an accepted match, whose notification the schema refuses, keep
\* the transition they made and are answered 200.
C16_BestEffort ==
    [][\A e \in Emergencies, r \in Resources :
          /\ ( /\ Answered("updateMatchStatus", e, r)
               /\ eExists[e] /\ rExists[r]
               /\ EStatus(e, r) = "pending"
               /\ \E user \in Users :
                      /\ IsOwnerAssignedOrAdmin(EmergencyDoc(e), user)
                      /\ updateMatchStatus(e, r, "accept", user, FALSE) )
             => /\ EStatus(e, r)' = "accepted"
                /\ resourceStatus'[r] = "reserved"
                /\ last'.code = 200
          /\ ( /\ Answered("markResourceDelivered", e, r)
               /\ eExists[e] /\ rExists[r]
               /\ RStatus(r, e) = "accepted"
               /\ \E user \in Users :
                      /\ IsOwnerAssignedOrAdmin(ResourceDoc(r), user)
                      /\ markResourceDelivered(r, e, user, TRUE) )
             => /\ RStatus(r, e)' = "delivered"
                /\ resourceStatus'[r] = "delivered"
                /\ last'.code = 200]_vars

(***************************************************************************)
(* The ranking functions.                                                  *)
(***************************************************************************)
\* the ranking function of a call applied to other arguments
Ranking(fn, anchor, pool, maxDistance) ==
    IF fn = "matchResourcesToEmergency"
    THEN matchResourcesToEmergency(anchor, pool, maxDistance)
    ELSE matchEmergenciesToResource(anchor, pool, maxDistance)

Reverse(seq) == [i \in 1..Len(seq) |-> seq[Len(seq) + 1 - i]]

\* the candidate of the pool of the call that an entry of the result refers to
Candidate(id) == rank.pool[CHOOSE i \in 1..Len(rank.pool) : rank.pool[i]._id = id]

\* the identities of the candidates in their order as strings
IdOrder == <<"e1", "e2", "emergency1", "r1", "r2", "resource1">>
IdIndex(id) == CHOOSE i \in 1..Len(IdOrder) : IdOrder[i] = id

\* entry a stands before entry b in the order the specification gives the
\* result: matchScore descending, then distance ascending, then identity
RankedBefore(a, b) ==
    \/ a.matchScore > b.matchScore
    \/ a.matchScore = b.matchScore /\ a.distance < b.distance
    \/ a.matchScore = b.matchScore /\ a.distance = b.distance
         /\ IdIndex(a.id) < IdIndex(b.id)

\* C17: the list a ranking function returns is ordered by matchScore
\* descending, ties by distance ascending and then by the identity of the
\* candidate, and is the same list whatever the order of the pool it was given
C17_Deterministic ==
    rank.returned =>
        /\ \A i, j \in 1..Len(rank.result) :
               i < j => RankedBefore(rank.result[i], rank.result[j])
        /\ rank.result = Ranking(rank.fn, rank.anchor, Reverse(rank.pool), rank.maxDistance)

\* the distance between the anchor of the call and a candidate of its pool, in
\* hundredths of a kilometre
Located(doc) == rank.anchor.location # NoLocation /\ doc.location # NoLocation

ActualDistance(doc) ==
    calculateDistance(rank.anchor.location[2], rank.anchor.location[1],
                      doc.location[2], doc.location[1])

\* C18: no entry of a returned list refers to a candidate that is farther from
\* the anchor than maxDistance, whatever its identity, type, urgency or quantity
C18_WithinMaxDistance ==
    rank.returned =>
        \A i \in 1..Len(rank.result) :
            Located(Candidate(rank.result[i].id)) =>
                ActualDistance(Candidate(rank.result[i].id)) <= 100 * rank.maxDistance

\* C19: every matchScore of a returned list is an integer from 0 to 100,
\* whatever the distance, the urgency (unknown values included) and the
\* quantities (zero, negative or missing included)
C19_ScoreRange ==
    rank.returned =>
        \A i \in 1..Len(rank.result) : rank.result[i].matchScore \in 0..100

\* Math.round(distanceScore * 0.6), the quantity term being 0
ResourceScoreNoQuantity(distance, maxDistance) ==
    Round(6 * DistanceScoreScaled(distance, maxDistance), 10 * maxDistance)

\* Math.round(distanceScore * 0.4 + urgencyScore * 0.4), the quantity term being 0
EmergencyScoreNoQuantity(distance, urgency, maxDistance) ==
    Round(4 * DistanceScoreScaled(distance, maxDistance)
            + 4 * getUrgencyScore(urgency) * maxDistance,
          10 * maxDistance)

\* C20: when the denominator of the quantity ratio is zero (the quantity of
\* the emergency when resources are ranked, of the resource when emergencies
\* are ranked) the quantity term is 0: every returned matchScore is
\* round(0.6 * distanceScore), respectively
\* round(0.4 * distanceScore + 0.4 * urgencyScore)
C20_ZeroDenominator ==
    (rank.returned /\ rank.anchor.quantity = 0) =>
        \A i \in 1..Len(rank.result) :
            LET entry == rank.result[i]
            IN  IF rank.fn = "matchResourcesToEmergency"
                THEN entry.matchScore
                       = ResourceScoreNoQuantity(entry.distance, rank.maxDistance)
                ELSE entry.matchScore
                       = EmergencyScoreNoQuantity(entry.distance,
                                                  Candidate(entry.id).urgency,
                                                  rank.maxDistance)

(***************************************************************************)
(* The scores the specification gives.                                     *)
(***************************************************************************)
Clamp(x, lo, hi) == IF x < lo THEN lo ELSE IF x > hi THEN hi ELSE x

\* the specification's urgencyScore
SpecUrgencyScore(urgency) ==
    IF urgency = "critical" THEN 100
    ELSE IF urgency = "high" THEN 75
    ELSE IF urgency = "medium" THEN 50
    ELSE IF urgency = "low" THEN 25
    ELSE 0

\* round(0.6 * distanceScore + 0.4 * quantityScore) for a distance in hundredths
\* of a kilometre and positive quantities, as one fraction:
\* distanceScore = dn / maxDistance, quantityScore = qn / eq
SpecResourceScore(distance, rq, eq, maxDistance) ==
    LET dn == Clamp(100 * maxDistance - distance, 0, 100 * maxDistance)
        qn == Clamp(100 * rq, 0, 100 * eq)
    IN  (2 * (6 * dn * eq + 4 * qn * maxDistance) + 10 * maxDistance * eq)
            \div (2 * 10 * maxDistance * eq)

\* round(0.4 * distanceScore + 0.4 * urgencyScore + 0.2 * quantityScore),
\* quantityScore = qn / rq
SpecEmergencyScore(distance, urgency, eq, rq, maxDistance) ==
    LET dn == Clamp(100 * maxDistance - distance, 0, 100 * maxDistance)
        qn == Clamp(100 * eq, 0, 100 * rq)
    IN  (2 * (4 * dn * rq + 4 * SpecUrgencyScore(urgency) * maxDistance * rq
                + 2 * qn * maxDistance)
           + 10 * maxDistance * rq)
            \div (2 * 10 * maxDistance * rq)

\* C21: every entry matchResourcesToEmergency returns carries
\* round(0.6 * distanceScore + 0.4 * quantityScore), computed from the actual
\* distance and the quantity of the resource it refers to, whatever the
\* identity of that resource (positive quantities)
C21_ResourceFormula ==
    (rank.returned /\ rank.fn = "matchResourcesToEmergency" /\ rank.anchor.quantity > 0) =>
        \A i \in 1..Len(rank.result) :
            LET resource == Candidate(rank.result[i].id)
            IN  (resource.quantity > 0 /\ Located(resource)) =>
                    rank.result[i].matchScore
                      = SpecResourceScore(ActualDistance(resource), resource.quantity,
                                          rank.anchor.quantity, rank.maxDistance)

\* C22: every entry matchEmergenciesToResource returns carries
\* round(0.4 * distanceScore + 0.4 * urgencyScore + 0.2 * quantityScore), the
\* urgencyScore being 100, 75, 50, 25 for critical, high, medium, low and 0 for
\* any other urgency (positive quantities)
C22_EmergencyFormula ==
    (rank.returned /\ rank.fn = "matchEmergenciesToResource" /\ rank.anchor.quantity > 0) =>
        \A i \in 1..Len(rank.result) :
            LET emergency == Candidate(rank.result[i].id)
            IN  (emergency.quantity > 0 /\ Located(emergency)) =>
                    rank.result[i].matchScore
                      = SpecEmergencyScore(ActualDistance(emergency), emergency.urgency,
                                           emergency.quantity, rank.anchor.quantity,
                                           rank.maxDistance)

\* a candidate of the pool passes the filter the specification gives for the
\* function called
Eligible(doc) ==
    IF rank.fn = "matchResourcesToEmergency"
    THEN doc.type = rank.anchor.type /\ doc.status = "available"
    ELSE /\ doc.type = rank.anchor.type
         /\ doc.status = "active"
         /\ doc.quantity # Undefined /\ rank.anchor.quantity # Undefined
         /\ doc.quantity <= rank.anchor.quantity

InPool(id) == \E i \in 1..Len(rank.pool) : rank.pool[i]._id = id

\* C23: every entry of a returned list refers to a candidate of the pool that
\* passes the filter (type equal to the anchor's and status available for a
\* resource; type equal, status active and quantity at most the resource's for
\* an emergency), and an emergency is returned as the pool holds it
C23_Eligibility ==
    rank.returned =>
        \A i \in 1..Len(rank.result) :
            /\ InPool(rank.result[i].id)
            /\ Eligible(Candidate(rank.result[i].id))
            /\ rank.fn = "matchEmergenciesToResource" =>
                   rank.result[i].quantity = Candidate(rank.result[i].id).quantity

\* the distances of the candidates of ScoreCalls from the anchor
ScoreDistances == {calculateDistance(0, 0, lat, 0) : lat \in ScoreLatitudes}

\* the list the call returns when its one candidate stands at latitude lat
ResultAt(lat) ==
    Ranking(rank.fn, rank.anchor, << [rank.pool[1] EXCEPT !.location = <<0, lat>>] >>,
            rank.maxDistance)

\* C24: for a fixed maxDistance the distanceScore does not grow with the
\* distance up to maxDistance, and the matchScore of a candidate, its
\* quantities and urgency held fixed, is not higher at a greater distance
C24_Monotone ==
    rank.returned =>
        /\ \A d1 \in ScoreDistances, d2 \in ScoreDistances :
               (d1 <= d2 /\ d2 <= 100 * rank.maxDistance) =>
                   DistanceScoreScaled(d1, rank.maxDistance)
                     >= DistanceScoreScaled(d2, rank.maxDistance)
        /\ \A lat \in ScoreLatitudes :
               ( /\ rank.pool[1].location[2] <= lat
                 /\ Len(rank.result) = 1
                 /\ Len(ResultAt(lat)) = 1 )
               => ResultAt(lat)[1].matchScore <= rank.result[1].matchScore

\* a candidate away from the anchor is returned with a lower score than it has
\* at the anchor
C24_Witness ==
    /\ rank.returned
    /\ rank.pool[1]._id \in {"r1", "e1"}
    /\ Len(rank.result) = 1
    /\ rank.result[1].distance > 0
    /\ Len(ResultAt(0)) = 1
    /\ rank.result[1].matchScore \in 0..100
    /\ rank.result[1].matchScore < ResultAt(0)[1].matchScore

\* C25: a ranking function hands its caller a list and no error, whatever the
\* anchor and the pool (an empty pool, a pool without an eligible candidate,
\* a candidate or an anchor without a location), and the list is empty when no
\* candidate of the pool is eligible
C25_NeverThrows ==
    rank.returned =>
        /\ DOMAIN rank.result = 1..Len(rank.result)
        /\ (\A i \in 1..Len(rank.pool) : ~Eligible(rank.pool[i])) => rank.result = << >>

(***************************************************************************)
(* The match lists of the store.                                           *)
(***************************************************************************)
\* C26: in every reachable state Emergency.matchedResources holds at most one
\* entry per resource and Resource.matchedEmergencies at most one entry per
\* emergency, also after a ranking followed by an accept and after an accept
\* made twice
C26_NoDuplicates ==
    \A e \in Emergencies, r \in Resources :
        /\ Cardinality(EntriesFor(matchedResources[e], r)) <= 1
        /\ Cardinality(EntriesFor(matchedEmergencies[r], e)) <= 1

\* the emergencies whose list shows the resource as accepted
AcceptedBy(r) == {e \in Emergencies : eExists[e] /\ EStatus(e, r) = "accepted"}

\* C27: in every reachable state at most one emergency holds a resource in
\* status accepted, also when several emergencies ranked it as pending
C27_ExclusiveReservation ==
    \A r \in Resources : rExists[r] => Cardinality(AcceptedBy(r)) <= 1

\* some entry of Resource.matchedEmergencies has this status
HasMatchIn(r, status) ==
    \E i \in 1..Len(matchedEmergencies[r]) : matchedEmergencies[r][i].status = status

\* C28: in every reachable state a resource with an accepted match has status
\* reserved and a resource with a delivered match has status delivered, and no
\* step sets Resource.status to available while a match of it is accepted
C28_StatusCoupling ==
    /\ [](\A r \in Resources :
              rExists[r] =>
                  /\ HasMatchIn(r, "accepted") => resourceStatus[r] = "reserved"
                  /\ HasMatchIn(r, "delivered") => resourceStatus[r] = "delivered")
    /\ [][\A r \in Resources :
              (rExists[r] /\ HasMatchIn(r, "accepted") /\ resourceStatus[r] # "available")
                  => resourceStatus'[r] # "available"]_vars

\* C29: in every reachable state an emergency lists a resource exactly when
\* the resource lists the emergency
C29_ExistenceSymmetry ==
    \A e \in Emergencies, r \in Resources :
        (eExists[e] /\ rExists[r]) =>
            (EntriesFor(matchedResources[e], r) # {}
               <=> EntriesFor(matchedEmergencies[r], e) # {})

Fulfilled(e) == {k \in 1..Len(resourcesNeeded[e]) : resourcesNeeded[e][k].fulfilled}

Delivered(e) ==
    {i \in 1..Len(matchedResources[e]) : matchedResources[e][i].status = "delivered"}

\* C30: in every reachable state an emergency has at most as many fulfilled
\* needs as delivered entries in matchedResources, and no accept, reject,
\* deliver or updateResourceMatch takes a fulfilled flag back to false
C30_FulfilmentAccounting ==
    /\ [](\A e \in Emergencies :
              eExists[e] => Cardinality(Fulfilled(e)) <= Cardinality(Delivered(e)))
    /\ [][\A e \in Emergencies :
              last'.op \in {"updateMatchStatus", "markResourceDelivered",
                            "updateResourceMatch"}
                  => \A k \in Fulfilled(e) : k \in Fulfilled(e)']_vars

====
